---- MODULE Spec2Model ----
(***************************************************************************)
(* Model of the zinc web framework: the per-method route trie (node,       *)
(* router) and the per-request handler chain (Context, Engine).            *)
(*                                                                         *)
(* A Go string is modelled as the sequence of its characters, so that      *)
(* strings.Split, strings.Join, part[0] and part[1:] are computed as the   *)
(* code computes them.  A *node is an index into the heap `nodes`; 0 is    *)
(* the nil pointer.                                                        *)
(***************************************************************************)
EXTENDS Integers, Sequences, FiniteSets, TLC

VARIABLES
    nodes,      \* heap of trie nodes: [pattern, part, children, isWild]
    roots,      \* router.roots: method -> root node
    handlers,   \* router.handlers: method + "-" + pattern -> HandlerFunc
    regs,       \* history: the addRoute calls made so far, in order
    res,        \* the last getRoute call and what it returned
    groups,     \* Engine.groups: [prefix, middlewares], in declaration order
    pc,         \* "setup" (main is registering), "idle", "serving", "done"
    ctx,        \* the Context of the request being served
    stack,      \* call stack of the request: handle, Next and handler frames
    record,     \* history: what the request's handlers did, in order
    other       \* the request of the other goroutine: [pc, ctx, stack, record]

routerVars == <<nodes, roots, handlers, regs>>

engineVars == <<groups, pc>>

reqVars == <<ctx, stack, record>>

vars ==
    <<nodes, roots, handlers, regs, res, groups, pc, ctx, stack, record, other>>

-----------------------------------------------------------------------------
(* Bounds and input universes *)

MaxRoutes == 3

\* calls of Use, Group and GET that main makes on the groups at most
MaxSetup == 3

\* calls of Next and Fail the user handlers of one request make at most
MaxCalls == 3

Nil == "nil"

RECURSIVE Mk(_)
\* the string "/s1/s2/.../sn" of the segments s1..sn
Mk(segs) == IF segs = <<>> THEN <<>> ELSE <<"/">> \o Head(segs) \o Mk(Tail(segs))

sA == <<"a">>
sB == <<"b">>
sT == <<"t">>
cX == <<":", "x">>
cY == <<":", "y">>
wF == <<"*", "f">>
wZ == <<"*", "z">>

GET == <<"G">>
POST == <<"P">>

\* patterns offered to addRoute
PatternsU ==
    { <<"/">>,
      Mk(<<sA>>),
      Mk(<<sA, sB>>),
      Mk(<<sA, sB>>) \o <<"/">>,
      Mk(<<sA, cX>>),
      Mk(<<sA, cY>>),
      Mk(<<sA, wF>>),
      Mk(<<sA, cX, sB>>) }

\* request paths offered to getRoute
PathsU ==
    { <<"/">>,
      Mk(<<sA>>),
      Mk(<<sA, sB>>),
      Mk(<<sA, sB>>) \o <<"/">>,
      Mk(<<sA, sT>>),
      Mk(<<sA, sB, sB>>),
      Mk(<<sA, sT, sB>>),
      Mk(<<sA, sB, sT>>),
      Mk(<<sA, wZ>>),
      Mk(<<sA, wZ, sB>>),
      Mk(<<sB, sT>>) }

RouteHandlers == {"h1", "h2"}

MiddlewareIds == {"m1", "m2"}

\* registrations offered to router.addRoute
RoutesU ==
    {[method |-> GET, pattern |-> p, handler |-> "h1"] : p \in PatternsU}
    \cup {[method |-> GET, pattern |-> Mk(<<sA, sB>>), handler |-> "h2"],
          [method |-> POST, pattern |-> Mk(<<sA, sB>>), handler |-> "h1"],
          [method |-> POST, pattern |-> Mk(<<sA, cX>>), handler |-> "h2"]}

\* lookups offered to router.getRoute
LookupsU ==
    {[method |-> GET, path |-> p] : p \in PathsU}
    \cup {[method |-> POST, path |-> Mk(<<sA, sB>>)],
          [method |-> POST, path |-> Mk(<<sA, sT>>)]}

\* prefixes offered to Group
PrefixesU == {Mk(<<sA>>)}

\* routes offered to a group's GET
GroupRoutesU == {[comp |-> Mk(<<sB>>), handler |-> "h1"]}

\* requests offered to ServeHTTP
RequestsU ==
    {[method |-> GET, path |-> Mk(<<sA, sB>>)],
     [method |-> GET, path |-> Mk(<<sB>>)]}

-----------------------------------------------------------------------------
(* Strings *)

RECURSIVE SplitFrom(_, _, _)
SplitFrom(s, i, cur) ==
    IF i > Len(s) THEN <<cur>>
    ELSE IF s[i] = "/" THEN <<cur>> \o SplitFrom(s, i + 1, <<>>)
    ELSE SplitFrom(s, i + 1, Append(cur, s[i]))

\* strings.Split(s, "/")
Split(s) == SplitFrom(s, 1, <<>>)

RECURSIVE Join(_)
\* strings.Join(parts, "/")
Join(parts) ==
    IF parts = <<>> THEN <<>>
    ELSE IF Len(parts) = 1 THEN parts[1]
    ELSE parts[1] \o <<"/">> \o Join(Tail(parts))

\* strings.HasPrefix(s, "*")
HasStarPrefix(s) == Len(s) >= 1 /\ s[1] = "*"

\* map assignment m[k] = v
MapPut(m, k, v) == [x \in (DOMAIN m) \cup {k} |-> IF x = k THEN v ELSE m[x]]

EmptyMap == [x \in {} |-> <<>>]

-----------------------------------------------------------------------------
(* router.go: parsePattern *)

RECURSIVE parseItems(_, _)
parseItems(vs, i) ==
    IF i > Len(vs) THEN <<>>
    ELSE LET item == vs[i] IN
         IF item # <<>>
         THEN IF item[1] = "*" THEN <<item>>
              ELSE <<item>> \o parseItems(vs, i + 1)
         ELSE parseItems(vs, i + 1)

parsePattern(pattern) == parseItems(Split(pattern), 1)

-----------------------------------------------------------------------------
(* trie node *)

newNode(part, wild) ==
    [pattern |-> <<>>, part |-> part, children |-> <<>>, isWild |-> wild]

isDynamic(part) == part[1] = ":" \/ part[1] = "*"

RECURSIVE matchChildAnyWildFrom(_, _, _, _)
matchChildAnyWildFrom(ns, n, part, i) ==
    IF i > Len(ns[n].children) THEN 0
    ELSE LET child == ns[n].children[i] IN
         IF ns[child].part = part \/ ns[child].isWild
         THEN child
         ELSE matchChildAnyWildFrom(ns, n, part, i + 1)

\* matchChild letting any token reuse a wildcard child
matchChildAnyWild(ns, n, part) == matchChildAnyWildFrom(ns, n, part, 1)

RECURSIVE matchChildExactFrom(_, _, _, _)
matchChildExactFrom(ns, n, part, i) ==
    IF i > Len(ns[n].children) THEN 0
    ELSE LET child == ns[n].children[i] IN
         IF ns[child].part = part
         THEN child
         ELSE matchChildExactFrom(ns, n, part, i + 1)

\* matchChild by equality of the segment only
matchChildExact(ns, n, part) == matchChildExactFrom(ns, n, part, 1)

RECURSIVE matchChildFrom(_, _, _, _)
matchChildFrom(ns, n, part, i) ==
    IF i > Len(ns[n].children) THEN 0
    ELSE LET child == ns[n].children[i] IN
         IF ns[child].part = part \/ (isDynamic(part) /\ ns[child].isWild)
         THEN child
         ELSE matchChildFrom(ns, n, part, i + 1)

\* the first child that matches, 0 when there is none
matchChild(ns, n, part) == matchChildFrom(ns, n, part, 1)

\* matchChildren without the precedence of static children
matchChildrenInOrder(ns, n, part) ==
    LET cs == ns[n].children
        matches(c) == ns[c].part = part \/ ns[c].isWild
    IN SelectSeq(cs, matches)

\* children whose part equals the token, then the wildcard children
matchChildren(ns, n, part) ==
    LET cs == ns[n].children
        static(c) == ns[c].part = part
        wild(c) == ns[c].part # part /\ ns[c].isWild
    IN SelectSeq(cs, static) \o SelectSeq(cs, wild)

RECURSIVE insert(_, _, _, _, _)
\* the heap after n.insert(pattern, parts, height)
insert(ns, n, pattern, parts, height) ==
    IF Len(parts) = height
    THEN [ns EXCEPT ![n].pattern = pattern]
    ELSE LET part == parts[height + 1]
             child == matchChild(ns, n, part)
         IN IF child = 0
            THEN LET new == Len(ns) + 1
                     ns2 == Append([ns EXCEPT ![n].children = Append(@, new)],
                                   newNode(part, isDynamic(part)))
                 IN insert(ns2, new, pattern, parts, height + 1)
            ELSE insert(ns, child, pattern, parts, height + 1)

RECURSIVE search(_, _, _, _)
RECURSIVE searchEach(_, _, _, _, _)
\* n.search(parts, height): the matching node, 0 when there is none
search(ns, n, parts, height) ==
    IF Len(parts) = height \/ HasStarPrefix(ns[n].part)
    THEN IF ns[n].pattern = <<>> THEN 0 ELSE n
    ELSE searchEach(ns, matchChildren(ns, n, parts[height + 1]), 1, parts, height)

\* the loop over the candidate children in search
searchEach(ns, children, i, parts, height) ==
    IF i > Len(children) THEN 0
    ELSE LET result == search(ns, children[i], parts, height + 1) IN
         IF result # 0 THEN result
         ELSE searchEach(ns, children, i + 1, parts, height)

-----------------------------------------------------------------------------
(* router *)

routeKey(method, pattern) == method \o <<"-">> \o pattern

RECURSIVE bindParams(_, _, _, _)
\* the parameter loop of getRoute, from index i (1-based) of parts
bindParams(parts, searchParts, i, params) ==
    IF i > Len(parts) THEN params
    ELSE LET part == parts[i]
             p1 == IF part[1] = ":"
                   THEN MapPut(params, Tail(part), searchParts[i])
                   ELSE params
         IN IF part[1] = "*" /\ Len(part) > 1
            THEN MapPut(p1, Tail(part),
                        Join(SubSeq(searchParts, i, Len(searchParts))))
            ELSE bindParams(parts, searchParts, i + 1, p1)

\* router.getRoute on the table (ns, rs): [n, params]
getRouteIn(ns, rs, method, path) ==
    LET searchParts == parsePattern(path) IN
    IF method \notin DOMAIN rs THEN [n |-> 0, params |-> Nil]
    ELSE LET n == search(ns, rs[method], searchParts, 0) IN
         IF n # 0
         THEN [n |-> n,
               params |-> bindParams(parsePattern(ns[n].pattern), searchParts,
                                     1, EmptyMap)]
         ELSE [n |-> 0, params |-> Nil]

getRoute(method, path) == getRouteIn(nodes, roots, method, path)

\* the trie after router.addRoute(method, pattern, _) on the trie (ns, rs)
addRouteIn(ns, rs, method, pattern) ==
    LET parts == parsePattern(pattern)
        fresh == method \notin DOMAIN rs
        ns1 == IF fresh THEN Append(ns, newNode(<<>>, FALSE)) ELSE ns
        rs1 == IF fresh THEN MapPut(rs, method, Len(ns) + 1) ELSE rs
    IN [nodes |-> insert(ns1, rs1[method], pattern, parts, 0), roots |-> rs1]

\* router.addRoute(method, pattern, handler)
addRoute(method, pattern, handler) ==
    LET t == addRouteIn(nodes, roots, method, pattern) IN
    /\ handlers' = MapPut(handlers, routeKey(method, pattern), handler)
    /\ roots' = t.roots
    /\ nodes' = t.nodes
    /\ regs' = Append(regs, [method |-> method, pattern |-> pattern,
                            handler |-> handler])

\* what a call of getRoute(method, path) leaves in res
lookup(method, path) ==
    LET r == getRoute(method, path) IN
    [called |-> TRUE, method |-> method, path |-> path, n |-> r.n,
     pattern |-> IF r.n = 0 THEN Nil ELSE nodes[r.n].pattern,
     params |-> r.params]

\* a call of router.addRoute during setup
AddRoute(method, pattern, handler) ==
    /\ pc = "setup"
    /\ Len(regs) < MaxRoutes
    /\ addRoute(method, pattern, handler)
    /\ UNCHANGED <<other, res, groups, pc, reqVars>>

\* a call of router.getRoute(method, path) by the running server; the table
\* is not changed
GetRoute(method, path) ==
    /\ pc = "idle"
    /\ res' = lookup(method, path)
    /\ UNCHANGED <<other, routerVars, engineVars, reqVars>>

-----------------------------------------------------------------------------
(* Engine and RouterGroup *)

\* strings.HasPrefix(s, prefix)
HasPrefix(s, prefix) ==
    Len(prefix) <= Len(s) /\ SubSeq(s, 1, Len(prefix)) = prefix

RECURSIVE countMiddlewares(_, _)
countMiddlewares(gs, i) ==
    IF i > Len(gs) THEN 0
    ELSE Len(gs[i].middlewares) + countMiddlewares(gs, i + 1)

\* the calls main has made on the groups: Use, Group, GET
setupCalls == countMiddlewares(groups, 1) + (Len(groups) - 1) + Len(regs)

\* group.Use(mw)
Use(g, mw) ==
    /\ pc = "setup"
    /\ setupCalls < MaxSetup
    /\ groups' = [groups EXCEPT ![g].middlewares = Append(@, mw)]
    /\ UNCHANGED <<other, routerVars, res, pc, reqVars>>

\* group.Group(prefix)
Group(g, prefix) ==
    /\ pc = "setup"
    /\ setupCalls < MaxSetup
    /\ groups' = Append(groups, [prefix |-> groups[g].prefix \o prefix,
                                 middlewares |-> <<>>])
    /\ UNCHANGED <<other, routerVars, res, pc, reqVars>>

\* group.GET(comp, handler), through RouterGroup.addRoute
GroupGET(g, comp, handler) ==
    /\ pc = "setup"
    /\ setupCalls < MaxSetup
    /\ addRoute(GET, groups[g].prefix \o comp, handler)
    /\ UNCHANGED <<other, res, groups, pc, reqVars>>

\* engine.Run: main has finished registering, the server listens
Run ==
    /\ pc = "setup"
    /\ pc' = "idle"
    /\ UNCHANGED <<other, routerVars, res, groups, reqVars>>

RECURSIVE applicableReversed(_, _, _)
\* the loop over engine.groups putting later groups first
applicableReversed(gs, path, i) ==
    IF i > Len(gs) THEN <<>>
    ELSE applicableReversed(gs, path, i + 1)
         \o (IF HasPrefix(path, gs[i].prefix) THEN gs[i].middlewares ELSE <<>>)

RECURSIVE applicable(_, _, _)
\* the loop of ServeHTTP over engine.groups, from group i
applicable(gs, path, i) ==
    IF i > Len(gs) THEN <<>>
    ELSE (IF HasPrefix(path, gs[i].prefix) THEN gs[i].middlewares ELSE <<>>)
         \o applicable(gs, path, i + 1)

-----------------------------------------------------------------------------
(* Context *)

\* newContext with the cursor on the first handler
newContextFromZero(method, path) ==
    [Method |-> method, Path |-> path, Params |-> Nil, StatusCode |-> 0,
     handlers |-> <<>>, index |-> 0]

newContext(method, path) ==
    [Method |-> method, Path |-> path, Params |-> Nil, StatusCode |-> 0,
     handlers |-> <<>>, index |-> -1]

\* an increment that wraps round to the first handler past the chain length
ctxAdvanceWrap(c) ==
    [c EXCEPT !.index = IF @ >= Len(c.handlers) THEN 0 ELSE @ + 1]

\* c.index++, in Next's first line and in its loop
ctxAdvance(c) == [c EXCEPT !.index = @ + 1]

\* Fail that writes the response and leaves the cursor alone
ctxFailNoStop(c, code) == [c EXCEPT !.StatusCode = code]

\* Fail that puts the cursor on the last handler
ctxFailOffByOne(c, code) ==
    [c EXCEPT !.index = Len(c.handlers) - 1, !.StatusCode = code]

\* Fail that rewinds the cursor to before the first handler
ctxFailRewind(c, code) == [c EXCEPT !.index = -1, !.StatusCode = code]

\* c.Fail(code, err)
ctxFail(c, code) ==
    [c EXCEPT !.index = Len(c.handlers), !.StatusCode = code]

\* c.Status(code)
ctxStatus(c, code) == [c EXCEPT !.StatusCode = code]

Frame(kind, pos) == [kind |-> kind, pos |-> pos, ops |-> 0]

Event(ev, pos) == [ev |-> ev, pos |-> pos]

top == stack[Len(stack)]

Pop(st) == SubSeq(st, 1, Len(st) - 1)

\* the top frame after one more call made from it
Bump(st) == [st EXCEPT ![Len(st)].ops = @ + 1]

\* the handler a handler frame runs
handlerOf(f) == ctx.handlers[f.pos + 1]

\* handlers written by the user of the framework do what they like
IsUser(h) == h \in MiddlewareIds \cup RouteHandlers

IsCall(e) == e.ev \in {"next", "fail"} /\ e.pos >= 0

\* the user handler on top of the stack may make one more call
MayCall ==
    /\ top.kind = "handler"
    /\ IsUser(handlerOf(top))
    /\ Len(SelectSeq(record, IsCall)) < MaxCalls

\* ServeHTTP and router.handle, up to the call of c.Next()
ServeHTTP(method, path) ==
    /\ pc \in {"idle", "done"}
    /\ LET middlewares == applicable(groups, path, 1)
           r == getRoute(method, path)
           c == [newContext(method, path) EXCEPT !.handlers = middlewares]
           key == routeKey(method, nodes[r.n].pattern)
       IN ctx' = IF r.n # 0
                 THEN [c EXCEPT !.Params = r.params,
                                !.handlers = Append(@, handlers[key])]
                 ELSE [c EXCEPT !.handlers = Append(@, "notFound")]
    /\ res' = lookup(method, path)
    /\ stack' = <<Frame("handle", -1)>>
    /\ record' = <<>>
    /\ pc' = "serving"
    /\ UNCHANGED <<other, routerVars, groups>>

\* the frame on top of the stack is the Recovery middleware
InRecovery == top.kind = "handler" /\ handlerOf(top) = "Recovery"

\* c.Next() is called, by handle, by Recovery or by a user handler: c.index++
CallNext ==
    /\ pc = "serving"
    /\ \/ top.kind = "handle" /\ top.ops = 0
       \/ InRecovery /\ top.ops = 0
       \/ MayCall
    /\ ctx' = ctxAdvance(ctx)
    /\ stack' = Append(Bump(stack), Frame("next", top.pos))
    /\ record' = Append(record, Event("next", top.pos))
    /\ UNCHANGED <<other, routerVars, res, engineVars>>

\* a handler calls c.Fail(code, err)
CallFail(code) ==
    /\ pc = "serving"
    /\ MayCall
    /\ ctx' = ctxFail(ctx, code)
    /\ stack' = Bump(stack)
    /\ record' = Append(record, Event("fail", top.pos))
    /\ UNCHANGED <<other, routerVars, res, engineVars>>

\* the loop of Next finds c.index < len(c.handlers) and calls the handler
Invoke ==
    /\ pc = "serving"
    /\ top.kind = "next"
    /\ ctx.index < Len(ctx.handlers)
    /\ stack' = Append(stack, Frame("handler", ctx.index))
    /\ record' = Append(record, Event("enter", ctx.index))
    /\ UNCHANGED <<other, routerVars, res, engineVars, ctx>>

\* the loop of Next ends and Next returns to its caller
NextReturn ==
    /\ pc = "serving"
    /\ top.kind = "next"
    /\ ctx.index >= Len(ctx.handlers)
    /\ stack' = Pop(stack)
    /\ record' = Append(record, Event("resume", top.pos))
    /\ UNCHANGED <<other, routerVars, res, engineVars, ctx>>

\* the not-found handler of handle: c.String(404, ...)
NotFound ==
    /\ pc = "serving"
    /\ top.kind = "handler" /\ handlerOf(top) = "notFound" /\ top.ops = 0
    /\ ctx' = ctxStatus(ctx, 404)
    /\ stack' = Bump(stack)
    /\ record' = Append(record, Event("write", top.pos))
    /\ UNCHANGED <<other, routerVars, res, engineVars>>

\* a Next without the loop: the handler returns into Next, which returns
ReturnBreak ==
    /\ pc = "serving"
    /\ top.kind = "handler"
    /\ handlerOf(top) = "notFound" => top.ops = 1
    /\ InRecovery => top.ops >= 1
    /\ stack' = Pop(Pop(stack))
    /\ record' = record \o <<Event("return", top.pos),
                             Event("resume", stack[Len(stack) - 1].pos)>>
    /\ UNCHANGED <<other, routerVars, res, engineVars, ctx>>

\* a handler returns into the loop of Next, which does c.index++
Return ==
    /\ pc = "serving"
    /\ top.kind = "handler"
    /\ handlerOf(top) = "notFound" => top.ops = 1
    /\ InRecovery => top.ops >= 1
    /\ ctx' = ctxAdvance(ctx)
    /\ stack' = Pop(stack)
    /\ record' = Append(record, Event("return", top.pos))
    /\ UNCHANGED <<other, routerVars, res, engineVars>>

\* stack index of the innermost frame of Recovery, 0 when there is none
recoveryFrame ==
    LET fs == {i \in DOMAIN stack :
                  stack[i].kind = "handler" /\ handlerOf(stack[i]) = "Recovery"}
    IN IF fs = {} THEN 0 ELSE CHOOSE i \in fs : \A j \in fs : j <= i

\* a deferred function that logs the panic and leaves the context alone
deferredLogOnly(c) == c

\* the deferred function of Recovery, once recover() has returned the panic:
\* c.Fail(http.StatusInternalServerError, "Internal Server Error")
deferredRecover(c) == ctxFail(c, 500)

\* a user handler panics inside the c.Next() of Recovery: the frames above
\* Recovery are unwound and its deferred function runs
PanicRecover ==
    /\ pc = "serving"
    /\ top.kind = "handler" /\ IsUser(handlerOf(top))
    /\ recoveryFrame # 0
    /\ ctx' = deferredRecover(ctx)
    /\ stack' = Bump(SubSeq(stack, 1, recoveryFrame))
    /\ record' = record \o <<Event("panic", top.pos),
                             Event("recover", stack[recoveryFrame].pos)>>
    /\ UNCHANGED <<other, routerVars, res, engineVars>>

\* a user handler panics with no Recovery below it: the panic leaves handle
\* and ServeHTTP and the request is over
Panic ==
    /\ pc = "serving"
    /\ top.kind = "handler" /\ IsUser(handlerOf(top))
    /\ recoveryFrame = 0
    /\ stack' = <<>>
    /\ record' = record \o <<Event("panic", top.pos), Event("abort", -1)>>
    /\ pc' = "done"
    /\ UNCHANGED <<other, routerVars, res, groups, ctx>>

\* Next has returned to handle, which returns: the request is served
HandleReturn ==
    /\ pc = "serving"
    /\ top.kind = "handle" /\ top.ops = 1
    /\ stack' = <<>>
    /\ pc' = "done"
    /\ UNCHANGED <<other, routerVars, res, groups, ctx, record>>

-----------------------------------------------------------------------------

\* the goroutines of two requests share the processor; the steps of the
\* request held in other are taken after the switch
SwitchSharedContext ==
    /\ pc # "setup"
    /\ other' = [pc |-> pc, ctx |-> ctx, stack |-> stack, record |-> record]
    /\ pc' = other.pc
    /\ ctx' = IF other.pc = "idle" THEN other.ctx
              ELSE [other.ctx EXCEPT !.index = ctx.index]
    /\ stack' = other.stack
    /\ record' = other.record
    /\ UNCHANGED <<routerVars, res, groups>>

\* the server runs each request in a goroutine of its own, with its own
\* Context; the scheduler switches between two of them at any point
Switch ==
    /\ pc # "setup"
    /\ other' = [pc |-> pc, ctx |-> ctx, stack |-> stack, record |-> record]
    /\ pc' = other.pc
    /\ ctx' = other.ctx
    /\ stack' = other.stack
    /\ record' = other.record
    /\ UNCHANGED <<routerVars, res, groups>>

\* zinc.New()
New ==
    /\ nodes = <<>>
    /\ roots = EmptyMap
    /\ handlers = EmptyMap
    /\ regs = <<>>
    /\ res = [called |-> FALSE, method |-> <<>>, path |-> <<>>, n |-> 0,
              pattern |-> Nil, params |-> Nil]
    /\ groups = <<[prefix |-> <<>>, middlewares |-> <<>>]>>
    /\ pc = "setup"
    /\ ctx = newContext(<<>>, <<>>)
    /\ stack = <<>>
    /\ record = <<>>
    /\ other = [pc |-> "idle", ctx |-> newContext(<<>>, <<>>),
                stack |-> <<>>, record |-> <<>>]

Init == New

\* the route table: registrations and lookups
Next ==
    \/ \E r \in RoutesU : AddRoute(r.method, r.pattern, r.handler)
    \/ Run
    \/ \E l \in LookupsU : GetRoute(l.method, l.path)

Spec == Init /\ [][Next]_vars

\* the engine: groups and middlewares are set up, then requests are served
NextChain ==
    \/ \E g \in DOMAIN groups, mw \in MiddlewareIds : Use(g, mw)
    \/ \E g \in DOMAIN groups, p \in PrefixesU : Group(g, p)
    \/ \E g \in DOMAIN groups, r \in GroupRoutesU : GroupGET(g, r.comp, r.handler)
    \/ Run
    \/ \E q \in RequestsU : ServeHTTP(q.method, q.path)
    \/ CallNext
    \/ \E code \in {500} : CallFail(code)
    \/ Invoke
    \/ NextReturn
    \/ NotFound
    \/ Return
    \/ HandleReturn

SpecChain == Init /\ [][NextChain]_vars

\* the engine with the Recovery middleware in use and handlers that panic
NextRecovery ==
    \/ \E g \in DOMAIN groups, mw \in {"m1", "Recovery"} : Use(g, mw)
    \/ \E g \in DOMAIN groups, p \in PrefixesU : Group(g, p)
    \/ \E g \in DOMAIN groups, r \in GroupRoutesU : GroupGET(g, r.comp, r.handler)
    \/ Run
    \/ \E q \in RequestsU : ServeHTTP(q.method, q.path)
    \/ CallNext
    \/ \E code \in {401} : CallFail(code)
    \/ Invoke
    \/ NextReturn
    \/ NotFound
    \/ Return
    \/ PanicRecover
    \/ Panic
    \/ HandleReturn

SpecRecovery == Init /\ [][NextRecovery]_vars

\* the user handlers of the two requests together may make one more call
PairMayCall ==
    top.kind = "handler" =>
        Len(SelectSeq(record, IsCall)) + Len(SelectSeq(other.record, IsCall))
            < MaxCalls - 1

\* main may make one more call on the groups before the two requests
PairSetup == setupCalls < MaxSetup - 1

\* the engine serving two requests at a time, one in each goroutine
NextPair ==
    \/ \E g \in DOMAIN groups, mw \in {"m1"} : Use(g, mw) /\ PairSetup
    \/ \E g \in DOMAIN groups, p \in PrefixesU : Group(g, p) /\ PairSetup
    \/ \E g \in DOMAIN groups, r \in GroupRoutesU :
          GroupGET(g, r.comp, r.handler) /\ PairSetup
    \/ Run
    \/ \E q \in RequestsU : ServeHTTP(q.method, q.path)
    \/ CallNext /\ PairMayCall
    \/ \E code \in {500} : CallFail(code) /\ PairMayCall
    \/ Invoke
    \/ NextReturn
    \/ NotFound
    \/ Return
    \/ HandleReturn
    \/ Switch

SpecPair == Init /\ [][NextPair]_vars

-----------------------------------------------------------------------------
(* The route table *)

\* getRoute has been called; routes are registered before the server runs,
\* so res holds a lookup made on the route table as it is now
Looked == res.called

\* the patterns registered under a method so far
Registered(method) ==
    {regs[i].pattern : i \in {j \in DOMAIN regs : regs[j].method = method}}

NonEmpty(item) == item # <<>>

\* the segments of a path or pattern: its non-empty "/"-separated tokens
Segments(s) == SelectSeq(Split(s), NonEmpty)

IsStaticPattern(P) ==
    \A i \in DOMAIN Segments(P) : ~isDynamic(Segments(P)[i])

\* segment p of a pattern accepts the request segment q
SegAccepts(p, q) == isDynamic(p) \/ p = q

\* what it means for a pattern to match a path: the segments agree position by
\* position, a ":" segment taking any single segment and a final "*" segment
\* taking the one or more segments that remain
MatchesPattern(P, path) ==
    LET ps == Segments(P)
        qs == Segments(path)
    IN /\ ps # <<>> \/ qs = <<>>
       /\ IF ps # <<>> /\ ps[Len(ps)][1] = "*"
          THEN Len(qs) >= Len(ps)
          ELSE Len(qs) = Len(ps)
       /\ \A i \in DOMAIN ps : i <= Len(qs) /\ SegAccepts(ps[i], qs[i])

\* no pattern registered under the method of the lookup, other than P, matches
OnlyMatch(P) ==
    \A Q \in Registered(res.method) \ {P} : ~MatchesPattern(Q, res.path)

\* C4: when a static and a dynamic pattern registered under the method both
\* match the path, getRoute returns a registered static pattern with the
\* path's segments and binds no parameter, whichever was registered first
C4_StaticWins ==
    (/\ Looked
     /\ \E S, D \in Registered(res.method) :
           /\ IsStaticPattern(S) /\ ~IsStaticPattern(D)
           /\ MatchesPattern(S, res.path) /\ MatchesPattern(D, res.path))
    => /\ res.n # 0
       /\ res.pattern \in Registered(res.method)
       /\ IsStaticPattern(res.pattern)
       /\ Segments(res.pattern) = Segments(res.path)
       /\ res.params = EmptyMap

\* the dynamic pattern was registered first, the static one after it
C4_Witness ==
    /\ Looked /\ Len(regs) >= 2
    /\ regs[1].method = res.method /\ regs[2].method = res.method
    /\ ~IsStaticPattern(regs[1].pattern) /\ IsStaticPattern(regs[2].pattern)
    /\ MatchesPattern(regs[1].pattern, res.path)
    /\ MatchesPattern(regs[2].pattern, res.path)
    /\ res.pattern = regs[2].pattern

RECURSIVE conflictAt(_, _, _, _)
\* inserting parts below n meets a wildcard child holding a different
\* dynamic segment
conflictAt(ns, n, parts, height) ==
    IF Len(parts) = height THEN FALSE
    ELSE LET part == parts[height + 1]
             child == matchChild(ns, n, part)
         IN /\ child # 0
            /\ \/ isDynamic(part) /\ ns[child].part # part
               \/ conflictAt(ns, child, parts, height + 1)

\* the step registers r, whose dynamic segment meets a different one
ConflictingAdd(r) ==
    /\ regs' = Append(regs, r)
    /\ r.method \in DOMAIN roots
    /\ conflictAt(nodes, roots[r.method], parsePattern(r.pattern), 0)

\* the lookup resolves after the step exactly as it did before
Preserved(l) ==
    LET b == getRouteIn(nodes, roots, l.method, l.path)
        a == getRouteIn(nodes', roots', l.method, l.path)
    IN b.n # 0 =>
          /\ a.n # 0
          /\ nodes'[a.n].pattern = nodes[b.n].pattern
          /\ a.params = b.params

\* C5 as stated: registering a dynamic segment where a different dynamic
\* segment already sits leaves every lookup that resolved before resolving to
\* the same pattern and parameters, and overwrites no terminal pattern
C5_Original ==
    [][\A r \in RoutesU :
          ConflictingAdd(r) =>
             /\ \A l \in LookupsU : Preserved(l)
             /\ \A n \in DOMAIN nodes :
                   nodes[n].pattern # <<>> => nodes'[n].pattern = nodes[n].pattern
      ]_vars

\* P ends in a named catch-all segment
EndsInStar(P) ==
    LET ps == Segments(P) IN
    ps # <<>> /\ ps[Len(ps)][1] = "*" /\ Len(ps[Len(ps)]) > 1

\* C6 as stated: a path that extends the prefix of a registered pattern P
\* ending in *name, and matches no other registered pattern, resolves to P
\* with name bound to the remaining segments joined by "/"
C6_Original ==
    Looked =>
       \A P \in Registered(res.method) :
          (EndsInStar(P) /\ MatchesPattern(P, res.path) /\ OnlyMatch(P)) =>
             LET ps == Segments(P)
                 qs == Segments(res.path)
                 name == Tail(ps[Len(ps)])
             IN /\ res.n # 0
                /\ res.pattern = P
                /\ name \in DOMAIN res.params
                /\ res.params[name] = Join(SubSeq(qs, Len(ps), Len(qs)))

\* P has a ":" segment and no "*" segment
ColonPattern(P) ==
    LET ps == Segments(P) IN
    /\ \E i \in DOMAIN ps : ps[i][1] = ":"
    /\ \A i \in DOMAIN ps : ps[i][1] # "*"

\* C7 as stated: a path got from a registered pattern P by putting one token
\* in place of each :name, and matching no other registered pattern, resolves
\* to P with every name bound to its token
C7_Original ==
    Looked =>
       \A P \in Registered(res.method) :
          (ColonPattern(P) /\ MatchesPattern(P, res.path) /\ OnlyMatch(P)) =>
             LET ps == Segments(P)
                 qs == Segments(res.path)
             IN /\ res.n # 0
                /\ res.pattern = P
                /\ \A i \in DOMAIN ps :
                      ps[i][1] = ":" =>
                         /\ Tail(ps[i]) \in DOMAIN res.params
                         /\ res.params[Tail(ps[i])] = qs[i]

\* C8 as stated: looking up a registered pattern without dynamic segments
\* returns exactly that pattern and an empty parameter map, whatever else is
\* registered
C8_Original ==
    (/\ Looked
     /\ res.path \in Registered(res.method)
     /\ IsStaticPattern(res.path))
    => /\ res.n # 0
       /\ res.pattern = res.path
       /\ res.params = EmptyMap

\* S is static, D differs from S only in ending in a ":" segment
SiblingPair(S, D) ==
    LET ss == Segments(S)
        ds == Segments(D)
    IN /\ IsStaticPattern(S)
       /\ ds # <<>> /\ Len(ss) = Len(ds)
       /\ ds[Len(ds)][1] = ":"
       /\ SubSeq(ss, 1, Len(ss) - 1) = SubSeq(ds, 1, Len(ds) - 1)

\* what the lookup of res has to give when exactly S and D are registered
SiblingResult(S, D) ==
    LET ss == Segments(S)
        ds == Segments(D)
        qs == Segments(res.path)
        k == Len(ss)
    IN /\ qs = ss => res.pattern = S /\ res.params = EmptyMap
       /\ (Len(qs) = k /\ qs # ss /\ SubSeq(qs, 1, k - 1) = SubSeq(ss, 1, k - 1))
             => /\ res.pattern = D
                /\ res.params = MapPut(EmptyMap, Tail(ds[k]), qs[k])
       /\ \E n \in DOMAIN nodes : nodes[n].pattern = S
       /\ \E n \in DOMAIN nodes : nodes[n].pattern = D

\* the lookup of res gives the same on the table built in the other order
SameWhenSwapped ==
    LET t1 == addRouteIn(<<>>, EmptyMap, regs[2].method, regs[2].pattern)
        t2 == addRouteIn(t1.nodes, t1.roots, regs[1].method, regs[1].pattern)
        o == getRouteIn(t2.nodes, t2.roots, res.method, res.path)
    IN /\ (o.n = 0) <=> (res.n = 0)
       /\ o.n # 0 => t2.nodes[o.n].pattern = res.pattern
       /\ o.params = res.params

\* C9: with a static pattern and a pattern ending in ":x" at the same
\* position registered, in either order, every lookup gives the same result
\* as in the other order, the static path resolves to the static pattern
\* without parameters, any other token t there resolves to the dynamic pattern
\* with x = t, and both terminal patterns stay in the trie
C9_OrderIndependent ==
    (/\ Looked /\ Len(regs) = 2
     /\ regs[1].method = res.method /\ regs[2].method = res.method
     /\ \/ SiblingPair(regs[1].pattern, regs[2].pattern)
        \/ SiblingPair(regs[2].pattern, regs[1].pattern))
    => /\ SameWhenSwapped
       /\ IF IsStaticPattern(regs[1].pattern)
          THEN SiblingResult(regs[1].pattern, regs[2].pattern)
          ELSE SiblingResult(regs[2].pattern, regs[1].pattern)

\* the dynamic pattern came first and the static path is looked up
C9_Witness ==
    /\ Looked /\ Len(regs) = 2
    /\ regs[1].method = res.method /\ regs[2].method = res.method
    /\ SiblingPair(regs[2].pattern, regs[1].pattern)
    /\ Segments(res.path) = Segments(regs[2].pattern)
    /\ res.pattern = regs[2].pattern

\* the children of node n that are wildcard nodes
WildChildren(n) ==
    {i \in DOMAIN nodes[n].children : nodes[nodes[n].children[i]].isWild}

\* C19: after any sequence of addRoute calls no two children of a node carry
\* the same segment, and a node has at most one wildcard (":" or "*") child
C19_SiblingsUnique ==
    \A n \in DOMAIN nodes :
        /\ \A i, j \in DOMAIN nodes[n].children :
              i # j => nodes[nodes[n].children[i]].part
                          # nodes[nodes[n].children[j]].part
        /\ Cardinality(WildChildren(n)) <= 1

\* three patterns were registered below one node, two of them with different
\* dynamic segments and one static: the node has a wildcard and a static child
C19_Witness ==
    /\ Len(regs) = 3
    /\ \E i, j \in DOMAIN regs :
          /\ regs[i].method = regs[j].method
          /\ ColonPattern(regs[i].pattern) /\ ColonPattern(regs[j].pattern)
          /\ Len(Segments(regs[i].pattern)) = Len(Segments(regs[j].pattern))
          /\ regs[i].pattern # regs[j].pattern
    /\ \E n \in DOMAIN nodes :
          Len(nodes[n].children) = 2 /\ Cardinality(WildChildren(n)) = 1

\* P has no "*" segment
NoStar(P) == \A i \in DOMAIN Segments(P) : Segments(P)[i][1] # "*"

\* C17 as stated: whenever getRoute returns a pattern P without "*" segment,
\* the request path has exactly as many segments as P and every :name of P is
\* bound to the request segment at its position
C17_Original ==
    (Looked /\ res.n # 0 /\ NoStar(res.pattern)) =>
       LET ps == Segments(res.pattern)
           qs == Segments(res.path)
       IN /\ Len(qs) = Len(ps)
          /\ \A i \in DOMAIN ps :
                ps[i][1] = ":" =>
                   /\ Tail(ps[i]) \in DOMAIN res.params
                   /\ res.params[Tail(ps[i])] = qs[i]

RECURSIVE TrieEndpoint(_, _, _)
\* below node n, which has taken the first height segments of qs, some path of
\* the trie matches the rest of qs and ends at a node with a pattern: a child
\* takes the next segment when its segment equals it or it is a wildcard node,
\* and a "*" node takes all the segments that remain
TrieEndpoint(n, qs, height) ==
    \/ /\ Len(qs) = height \/ HasStarPrefix(nodes[n].part)
       /\ nodes[n].pattern # <<>>
    \/ /\ Len(qs) > height
       /\ \E i \in DOMAIN nodes[n].children :
             LET c == nodes[n].children[i] IN
             /\ nodes[c].part = qs[height + 1] \/ nodes[c].isWild
             /\ TrieEndpoint(c, qs, height + 1)

\* the static branch is a dead end for the path, which resolves through the
\* ":" branch after backtracking
BacktrackCase ==
    /\ Looked
    /\ Registered(res.method) = {Mk(<<sA, sB>>), Mk(<<sA, cX, sB>>)}
    /\ res.path = Mk(<<sA, sB, sB>>)

\* C18 as stated: getRoute returns no match only if no path of the method's
\* trie both matches the segments of the request path and ends at a node with
\* a non-empty pattern; with /a/b and /a/:x/b registered, /a/b/b resolves to
\* /a/:x/b with x = b
C18_Original ==
    /\ (Looked /\ res.n = 0 /\ res.method \in DOMAIN roots)
          => ~TrieEndpoint(roots[res.method], Segments(res.path), 0)
    /\ BacktrackCase
          => /\ res.pattern = Mk(<<sA, cX, sB>>)
             /\ res.params = MapPut(EmptyMap, <<"x">>, sB)

\* the step registers r, whose method and pattern were registered before
RepeatedAdd(r) ==
    /\ regs' = Append(regs, r)
    /\ \E i \in DOMAIN regs :
          regs[i].method = r.method /\ regs[i].pattern = r.pattern

\* C14 as stated: registering a method and pattern a second time leaves the
\* trie as it is (nodes, their segments, children and patterns) and stores
\* the handler of this last registration under method and pattern
C14_Original ==
    [][\A r \in RoutesU :
          RepeatedAdd(r) =>
             /\ nodes' = nodes
             /\ roots' = roots
             /\ handlers'[routeKey(r.method, r.pattern)] = r.handler
      ]_vars

\* no pattern registered under the method of the lookup matches its path
NothingMatches ==
    \A P \in Registered(res.method) : ~MatchesPattern(P, res.path)

\* C12 as stated, for getRoute: for a method and path that no registered
\* pattern matches, a method without trie root included, getRoute returns no
\* node and no parameters, so that handle runs the not-found handler and no
\* registered route handler
C12_Original ==
    (Looked /\ NothingMatches) => (res.n = 0 /\ res.params = Nil)

-----------------------------------------------------------------------------
(* The handler chain *)

\* number of middlewares of the request: the chain less its terminal handler
NumMw == Len(ctx.handlers) - 1

Has(ev, pos) == \E i \in DOMAIN record : record[i] = Event(ev, pos)

Count(ev, pos) == Cardinality({i \in DOMAIN record : record[i] = Event(ev, pos)})

IsPhase(e) == e.ev \in {"enter", "resume"} /\ e.pos >= 0

\* the handlers' pre-phases (a handler is entered) and post-phases (its call
\* of Next returns to it), in the order they ran
Phases == SelectSeq(record, IsPhase)

\* M1-pre .. Mn-pre, H, Mn-post .. M1-post
WrapOrder ==
    [i \in 1..(2 * NumMw + 1) |->
        IF i <= NumMw + 1 THEN Event("enter", i - 1)
        ELSE Event("resume", 2 * NumMw + 1 - i)]

\* every middleware that ran called Next exactly once and never Fail, and the
\* terminal handler called neither
AllWrap ==
    /\ \A i \in 0..(NumMw - 1) :
          Has("enter", i) => Count("next", i) = 1 /\ ~Has("fail", i)
    /\ ~Has("next", NumMw) /\ ~Has("fail", NumMw)

\* C1: when every middleware of the chain [M1..Mn, H] calls Next exactly once,
\* the served request has run M1-pre .. Mn-pre, H, Mn-post .. M1-post, each
\* exactly once
C1_ChainOrder == (pc = "done" /\ AllWrap) => Phases = WrapOrder

C1_Witness == pc = "done" /\ AllWrap /\ NumMw = 2 /\ Phases = WrapOrder

\* handler k called Fail, and had not called Next before that
FailFirst(k) ==
    \E i \in DOMAIN record :
        /\ record[i] = Event("fail", k)
        /\ \A j \in 1..(i - 1) : record[j] # Event("next", k)

\* the post-phase of handler j ran after handler k called Fail
ResumedAfterFail(j, k) ==
    \E i, r \in DOMAIN record :
        record[i] = Event("fail", k) /\ r > i /\ record[r] = Event("resume", j)

\* C2: once a middleware Mk has called Fail before Next, neither H nor any
\* middleware after Mk is ever entered, whether or not Mk then calls Next, and
\* the earlier middlewares that called Next still run their post-phase
C2_ShortCircuit ==
    \A k \in 0..(NumMw - 1) :
        FailFirst(k) =>
            /\ \A j \in (k + 1)..NumMw : ~Has("enter", j)
            /\ pc = "done" =>
                  \A j \in 0..(k - 1) : Has("next", j) => ResumedAfterFail(j, k)

C2_Witness ==
    /\ pc = "done" /\ NumMw = 2
    /\ FailFirst(1) /\ Has("next", 1)
    /\ Has("next", 0) /\ ResumedAfterFail(0, 1)

\* handler i has returned and called neither Next nor Fail
ReturnedQuietly(i) ==
    Has("return", i) /\ ~Has("next", i) /\ ~Has("fail", i)

\* C3 as stated: a handler that returns without calling Next or Fail stops
\* the chain, no handler at a later position is entered
C3_Original ==
    \A i \in 0..NumMw :
        ReturnedQuietly(i) => \A j \in (i + 1)..NumMw : ~Has("enter", j)

\* C3 amended: a handler that returns without calling Next or Fail does not
\* stop the chain, the loop of Next enters the handler at the next position;
\* a handler that returns without calling Next stops the chain only by
\* calling Fail
C3_Amended ==
    \A i \in 0..NumMw :
        /\ (pc = "done" /\ ReturnedQuietly(i) /\ i < NumMw)
              => Has("enter", i + 1)
        /\ (Has("fail", i) /\ ~Has("next", i))
              => \A j \in (i + 1)..NumMw : ~Has("enter", j)

C3_Witness ==
    /\ pc = "done" /\ NumMw = 2
    /\ ReturnedQuietly(0) /\ Has("enter", 1)
    /\ Has("fail", 1) /\ ~Has("next", 1) /\ ~Has("enter", 2)

\* the step is a call of Fail
IsFailStep ==
    /\ Len(record') = Len(record) + 1
    /\ record'[Len(record')].ev = "fail"

\* C10 as stated: no step of a request makes the cursor smaller
C10_Original == [][pc = "serving" => ctx'.index >= ctx.index]_vars

\* C10 amended: a call of Next, a loop increment and a handler return never
\* make the cursor smaller; a call of Fail sets it to the chain length, which
\* is smaller only when the cursor had already run past the chain length, so
\* the cursor never moves back below the chain length
C10_Amended ==
    [][pc = "serving" =>
          \/ ctx'.index >= ctx.index
          \/ IsFailStep /\ ctx'.index = Len(ctx.handlers)]_vars

\* a middleware has called Fail in its post-phase, after the Next calls
\* nested in it had returned and the cursor had run past the chain length
C10_Witness ==
    /\ pc = "serving" /\ record # <<>>
    /\ LET e == record[Len(record)] IN
          e.ev = "fail" /\ Has("resume", e.pos) /\ Has("return", e.pos + 1)
    /\ ctx.index = Len(ctx.handlers)

\* the step enters a handler
IsEnterStep ==
    /\ Len(record') = Len(record) + 1
    /\ record'[Len(record')].ev = "enter"

\* the cursor is at or past the chain length
PastEnd(c) == c.index >= Len(c.handlers)

\* C16: once the cursor of a request is at or past the chain length, by Fail
\* or by the loop of Next running off the end, it stays there and no step
\* enters a handler, whatever calls of Next and Fail the handlers that are
\* still unwinding make
C16_NoInvokeAfterEnd ==
    [][(pc = "serving" /\ PastEnd(ctx)) => (PastEnd(ctx') /\ ~IsEnterStep)]_vars

\* event i of the record is followed by no entry of a handler
NoEnterAfter(i) ==
    \A j \in DOMAIN record : j > i => record[j].ev # "enter"

\* the loop ran off the end, the first middleware then called Next again and
\* Fail in its post-phase, and nothing was entered after the terminal handler
\* had returned
C16_Witness ==
    /\ pc = "done" /\ NumMw >= 1 /\ PastEnd(ctx)
    /\ \E i, j, k \in DOMAIN record :
          /\ i < j /\ j < k
          /\ record[i] = Event("return", NumMw)
          /\ record[j] = Event("next", 0)
          /\ record[k] = Event("fail", 0)
          /\ NoEnterAfter(i)

IsEnter(e) == e.ev = "enter"

\* the chain positions entered so far, in the order they were entered
Entered == SelectSeq(record, IsEnter)

\* C20: whatever the handlers of a request do, calling Next any number of
\* times and Fail at any point, the chain positions are entered in strictly
\* increasing order, so no position is entered twice
C20_AtMostOnce ==
    \A i, j \in DOMAIN Entered : i < j => Entered[i].pos < Entered[j].pos

\* a middleware called Next twice and then Fail, and every handler of the
\* chain ran
C20_Witness ==
    /\ pc = "done" /\ NumMw = 2
    /\ Count("next", 0) >= 2 /\ Has("fail", 0)
    /\ Len(Entered) = 3

\* a request has been received and its chain built
Received == pc \in {"serving", "done"}

\* the prefix of group g is a string-prefix of the request path
Applies(g) == HasPrefix(ctx.Path, groups[g].prefix)

RECURSIVE Offset(_)
\* the number of middlewares of the applicable groups declared before group g
Offset(g) ==
    IF g = 1 THEN 0
    ELSE Offset(g - 1)
         + (IF Applies(g - 1) THEN Len(groups[g - 1].middlewares) ELSE 0)

\* C13: the chain of a request holds the middlewares of the groups whose
\* prefix is a string-prefix of the request path, group after group in
\* declaration order and within a group in the order of the Use calls,
\* followed by exactly one terminal handler, the handler of the matched route
\* or the not-found handler; a nested group is declared after its parent
C13_ChainBuilt ==
    /\ \A j \in DOMAIN groups :
          j > 1 => \E i \in 1..(j - 1), p \in PrefixesU :
                      groups[j].prefix = groups[i].prefix \o p
    /\ Received =>
          LET n == Len(ctx.handlers) IN
          /\ n = Offset(Len(groups) + 1) + 1
          /\ \A g \in DOMAIN groups :
                Applies(g) =>
                   \A k \in DOMAIN groups[g].middlewares :
                       ctx.handlers[Offset(g) + k] = groups[g].middlewares[k]
          /\ ctx.handlers[n] =
                IF res.n # 0
                THEN handlers[routeKey(ctx.Method, res.pattern)]
                ELSE "notFound"

\* the engine's group holds m2 and a group nested in it holds m1, both apply
\* to the request, which matches no route
C13_Witness ==
    /\ Received /\ Len(groups) = 2
    /\ groups[1].middlewares = <<"m2">> /\ groups[2].middlewares = <<"m1">>
    /\ Applies(2)
    /\ ctx.handlers = <<"m2", "m1", "notFound">>

\* event (ev, pos) is in the record before / after its i-th event
Before(ev, pos, i) == \E k \in 1..(i - 1) : record[k] = Event(ev, pos)

After(ev, pos, i) == \E k \in (i + 1)..Len(record) : record[k] = Event(ev, pos)

\* the chain positions whose Recovery had been entered and had not returned
\* when the i-th event of the record happened
RecoveriesAround(i) ==
    {r \in 0..NumMw : /\ ctx.handlers[r + 1] = "Recovery"
                      /\ Before("enter", r, i) /\ ~Before("return", r, i)}

Aborted == \E k \in DOMAIN record : record[k].ev = "abort"

\* the i-th event of the record is followed by no panic
NoPanicAfter(i) == \A k \in DOMAIN record : k > i => record[k].ev # "panic"

\* what holds of a request for each panic raised downstream of a Recovery
InterceptedPanics ==
    \A i \in DOMAIN record :
        (record[i].ev = "panic" /\ RecoveriesAround(i) # {}) =>
           LET rs == RecoveriesAround(i)
               r == CHOOSE x \in rs : \A y \in rs : y <= x
           IN /\ i < Len(record) /\ record[i + 1] = Event("recover", r)
              /\ Len(record) = i + 1 =>
                    /\ pc = "serving" /\ top.kind = "handler" /\ top.pos = r
                    /\ ctx.StatusCode = 500
              /\ NoEnterAfter(i)
              /\ (pc = "done" /\ NoPanicAfter(i)) =>
                    \A j \in 0..(r - 1) :
                        Before("next", j, i) => After("resume", j, i)

\* a step of a running server leaves the route table and the groups alone,
\* and the request after one with an intercepted panic starts from a fresh
\* context and gets the chain the route table and the groups give it
ServerIntact ==
    /\ pc # "setup" => UNCHANGED <<nodes, roots, handlers, groups>>
    /\ (pc = "done" /\ pc' = "serving"
        /\ \E k \in DOMAIN record : record[k].ev = "recover")
          => /\ ctx'.index = -1 /\ ctx'.StatusCode = 0 /\ record' = <<>>
             /\ LET r == getRoute(ctx'.Method, ctx'.Path) IN
                /\ ctx'.Params = r.params
                /\ ctx'.handlers =
                      Append(applicable(groups, ctx'.Path, 1),
                             IF r.n = 0 THEN "notFound"
                             ELSE handlers[routeKey(ctx'.Method,
                                                    nodes[r.n].pattern)])

\* C11: a panic raised by a handler that runs inside the c.Next() of Recovery
\* is intercepted by the innermost such Recovery, whose frame and the frames
\* below it stay; the status of the context becomes 500; no handler is entered
\* after the panic; unless a handler panics later in the request, every
\* middleware ahead of Recovery that had called Next runs its post-phase; the
\* route table and the groups are unchanged and the next request is served
\* from a fresh context
C11_RecoveryIntercepts == []InterceptedPanics /\ [][ServerIntact]_vars

\* the chain is m1, Recovery, h1: h1 panicked, Recovery intercepted it and
\* m1 ran its post-phase
C11_Witness ==
    /\ pc = "done" /\ ~Aborted
    /\ ctx.handlers = <<"m1", "Recovery", "h1">>
    /\ \E i \in DOMAIN record :
          /\ record[i] = Event("panic", 2)
          /\ record[i + 1] = Event("recover", 1)
          /\ Before("next", 0, i) /\ After("resume", 0, i)

\* the request of the running goroutine, in the shape of other
Cur == [pc |-> pc, ctx |-> ctx, stack |-> stack, record |-> record]

\* a request served alone, after event e: st holds its cursor, its frames and
\* whether every event so far was one the request could make alone
soloStep(st, e, len) ==
    LET f == st.frames
        t == f[Len(f)]
        popped == SubSeq(f, 1, Len(f) - 1)
        bad == [st EXCEPT !.ok = FALSE]
    IN IF ~st.ok \/ f = <<>> THEN bad
       ELSE CASE e.ev = "next" ->
                   IF t.kind \in {"handle", "handler"} /\ t.pos = e.pos
                   THEN [st EXCEPT !.index = @ + 1,
                                   !.frames = Append(f, [kind |-> "next",
                                                         pos |-> e.pos])]
                   ELSE bad
              [] e.ev = "enter" ->
                   IF t.kind = "next" /\ st.index < len /\ e.pos = st.index
                   THEN [st EXCEPT !.frames = Append(f, [kind |-> "handler",
                                                         pos |-> e.pos])]
                   ELSE bad
              [] e.ev = "return" ->
                   IF t.kind = "handler" /\ t.pos = e.pos
                   THEN [st EXCEPT !.index = @ + 1, !.frames = popped]
                   ELSE bad
              [] e.ev = "resume" ->
                   IF t.kind = "next" /\ t.pos = e.pos /\ st.index >= len
                   THEN [st EXCEPT !.frames = popped]
                   ELSE bad
              [] e.ev = "fail" ->
                   IF t.kind = "handler" /\ t.pos = e.pos
                   THEN [st EXCEPT !.index = len]
                   ELSE bad
              [] e.ev = "write" ->
                   IF t.kind = "handler" /\ t.pos = e.pos THEN st ELSE bad
              [] OTHER -> bad

RECURSIVE soloRun(_, _, _, _)
\* the request served alone, after the events of rec from the i-th on
soloRun(st, rec, i, len) ==
    IF i > Len(rec) THEN st
    ELSE soloRun(soloStep(st, rec[i], len), rec, i + 1, len)

\* kind and position of the frames of a stack
Frames(st) == [i \in DOMAIN st |-> [kind |-> st[i].kind, pos |-> st[i].pos]]

\* request R is where a request served alone is after the same events: the
\* chain and the parameters are those the route table and the groups give,
\* the events are in an order a lone request can make them in, and the cursor
\* and the frames are those of the lone request
AsAlone(R) ==
    R.pc \in {"setup", "idle"} \/
    LET c == R.ctx
        r == getRoute(c.Method, c.Path)
        run == soloRun([index |-> -1, ok |-> TRUE,
                        frames |-> <<[kind |-> "handle", pos |-> -1]>>],
                       R.record, 1, Len(c.handlers))
    IN /\ c.handlers =
             Append(applicable(groups, c.Path, 1),
                    IF r.n = 0 THEN "notFound"
                    ELSE handlers[routeKey(c.Method, nodes[r.n].pattern)])
       /\ c.Params = r.params
       /\ run.ok /\ run.index = c.index
       /\ R.pc = "serving" => Frames(R.stack) = run.frames
       /\ R.pc = "done" => Len(run.frames) = 1

\* C15: a step of the running server leaves roots, trie nodes, handlers map
\* and the middleware lists of the groups unchanged; a step of one request
\* leaves the context of the other as it is; and under every interleaving of
\* two requests each has the chain, the parameters, the cursor and the order
\* of execution of a request served alone
C15_Isolation ==
    /\ [](AsAlone(Cur) /\ AsAlone(other))
    /\ [][/\ pc # "setup" => UNCHANGED <<nodes, roots, handlers, groups>>
          /\ other' = other \/ (other' = Cur /\ Cur' = other)
         ]_vars

\* two requests with different chains are both under way: in one a handler
\* has called Fail, in the other the cursor is on a handler that runs
C15_Witness ==
    /\ pc = "serving" /\ other.pc = "serving"
    /\ ctx.handlers # other.ctx.handlers
    /\ ctx.Path # other.ctx.Path
    /\ \E i \in DOMAIN other.record : other.record[i].ev = "fail"
    /\ other.ctx.index = Len(other.ctx.handlers)
    /\ top.kind = "handler" /\ ctx.index = top.pos /\ ctx.index >= 1

====
